---- MODULE Spec2Model ----
(***************************************************************************)
(* Model of wdotcrawl's incremental archival engine: the revision-list     *)
(* compiler (RepoMaintainer.buildRevisionList) and the resumable commit    *)
(* state machine (openRepo, fetchAll, commitNext, cleanup) of rmaint.py,   *)
(* driven by run_crawl_job of crawl.py, against one target directory.      *)
(* A process may be killed at any step; the files of the target directory  *)
(* survive, the RepoMaintainer object does not.                            *)
(***************************************************************************)
EXTENDS Integers, Sequences, FiniteSets, TLC

(***************************************************************************)
(* Bounds of the exploration.                                              *)
(***************************************************************************)
\* number of times the program is started on the target directory
MaxRuns == 3
\* number of process kills over all runs
MaxKills == 1

(***************************************************************************)
(* Program constants.                                                      *)
(***************************************************************************)
max_page_count == 10000
max_depth == 10000
\* Wikidot.delay, msec between two requests
delay == 1000

(***************************************************************************)
(* The remote wiki.  Three pages; page 1 is created as "q" and renamed to  *)
(* "r" and then to "s"; page 2 ("p") gets "q" as parent and is edited      *)
(* later; page 3 ("c:n") is listed by the site only after RemoteGrow.      *)
(* A revision is identified by its id; the tables give what                *)
(* get_revisions and get_revision_version return for it.                   *)
(***************************************************************************)
NoName == "-"
PageNames == {"s", "p", "c:n"}
Names == {"q", "r", "s", "p", "c:n"}
FNames == Names \cup {"c~n"}
Exts == {"txt", "ftml"}
FileKeys == FNames \X Exts

PageIdOf == [n \in PageNames |-> CASE n = "s" -> 1 [] n = "p" -> 2 [] n = "c:n" -> 3]

\* page of a revision (the page whose get_revisions lists it)
RevPage == <<1, 2, 1, 2, 1, 3, 3>>
\* rev['date']
RevDate == <<10, 20, 30, 40, 50, 35, 45>>
\* details['unixname']: the page's name at that revision
RevName == <<"q", "p", "r", "p", "s", "c:n", "c:n">>
\* rev['comment']: "" (empty), "edit" (any other text) or
\* 'Parent page set to: "<parent>".'
RevComment == << [kind |-> "edit", parent |-> NoName],
                 [kind |-> "parent", parent |-> "q"],
                 [kind |-> "edit", parent |-> NoName],
                 [kind |-> "", parent |-> NoName],
                 [kind |-> "edit", parent |-> NoName],
                 [kind |-> "edit", parent |-> NoName],
                 [kind |-> "", parent |-> NoName] >>

\* the order in which list_pages returns the pages
SiteOrder == <<"s", "p", "c:n">>

RECURSIVE SelectSeqBy(_, _)
SelectSeqBy(s, S) ==
    IF s = <<>> THEN <<>>
    ELSE IF Head(s) \in S THEN <<Head(s)>> \o SelectSeqBy(Tail(s), S)
         ELSE SelectSeqBy(Tail(s), S)

\* Wikidot.list_pages: the names the listing module returns
ListPages(listedPages, again) ==
    SelectSeqBy(SiteOrder, listedPages)
        \o SelectSeqBy(SiteOrder, listedPages \cap again)

\* Wikidot.get_page_id
GetPageId(page) == PageIdOf[page]

\* Wikidot.get_revisions: the revisions of a page, most recent first
RECURSIVE RevsDesc(_, _)
RevsDesc(pid, k) ==
    IF k = 0 THEN <<>>
    ELSE IF RevPage[k] = pid THEN <<k>> \o RevsDesc(pid, k - 1)
         ELSE RevsDesc(pid, k - 1)

GetRevisions(pid, limit) ==
    LET all == RevsDesc(pid, Len(RevPage))
    IN  IF Len(all) <= limit THEN all ELSE SubSeq(all, 1, limit)

Range(s) == {s[i] : i \in DOMAIN s}

(***************************************************************************)
(* File contents.  A page file holds the source of one revision, the       *)
(* parent line written with it and whether the front-matter delimiters     *)
(* were written.  src = 0 stands for "no such file".                       *)
(***************************************************************************)
NoFile == [src |-> 0, parent |-> NoName, ftml |-> FALSE]
EmptyTree == [f \in FileKeys |-> NoFile]
IsFile(tree, f) == tree[f].src # 0

\* unixname.replace(':','~')
WinSafe(n) == IF n = "c:n" THEN "c~n" ELSE n

\* fname = winsafe name + '.ftml' or '.txt'
FName(n, ftml) == <<WinSafe(n), IF ftml THEN "ftml" ELSE "txt">>

NoNames == [n \in Names |-> NoName]


(***************************************************************************)
(* State.                                                                  *)
(***************************************************************************)
VARIABLES
    \* the remote site: the pages its listing returns
    listed,
    \* the pages its listing names a second time (on a later listing page)
    twice,
    \* the pages that no longer resolve to an id (deleted since they were listed)
    gone,
    \* the command line, the same for every run on the target
    args,
    \* files of the target directory
    d_wrevs,        \* .wrevs: [exists, val] cached revision list, in append order
    d_pages,        \* .pages: [exists, val] cached page list
    d_fetched,      \* .fetched.txt: the committed-id log, one id per line
    d_wstate,       \* .wstate: the persisted cursor, -1 when the file is absent
    d_meta,         \* .metadata.json
    d_revid,        \* .revid: -1 absent, 0 empty, else the id written
    d_git,          \* whether .git exists
    files,          \* page files of the working tree
    index,          \* page files staged in the git index
    commits,        \* the commits of the repository, oldest first
    \* the running process (a RepoMaintainer object and its position)
    pc,
    wrevs,
    rev_no,
    last_names,
    last_parents,
    parent_keys,    \* keys of last_parents in insertion order
    fetched_revids,
    prev_use_ftml,  \* "none", "true" or "false"
    pages,
    fetched_pages,
    page_i,         \* position of the page loop of buildRevisionList
    n_left,         \* iterations left in the loop of fetchAll
    cn,             \* locals of the commitNext in progress
    \* history, for stating the properties
    runs,
    kills,
    hist,           \* what happened to the target so far
    start,          \* what the target held when the current run started
    interrupted,    \* the commit a process killed before the append was making
    entry,          \* what the target held when the commitNext in progress began
    requested       \* the revisions the process has asked the site for

VARIABLES
    \* the Wikidot object of the process and the two clocks it lives by
    wd,             \* [delay, next_timeslot], in msec
    process_time,   \* time.process_time(): CPU time used by the process
    wall,           \* wall-clock time
    calls           \* the calls of _wait_request_slot made so far

VARIABLES
    \* one call of the Protocol Client, and what the calls leave behind
    op,             \* the call in progress: "none", "queryex", "get_page_id", "download"
    url,            \* the asset a download is for
    retries,        \* the counter of the call's retry loop
    resps,          \* the answers the requests of the call have got
    waits,          \* the back-off sleeps of the call, in seconds
    outcome,        \* "none" in the loop, then "returned", "true", "false", "raised"
    failed_images,  \* wd.failed_images
    d_failed,       \* .failed-images.txt: [exists, val]
    present,        \* the asset files that exist in the target directory
    refused         \* the assets a request for which was ever answered 4xx

VARIABLES
    \* commitNext's choice of where the tags of a change come from
    t_wrevs,        \* a compiled list: entries [rev_id, page_id, flag]
    t_rev_no,       \* the cursor into it
    t_tags          \* the choice made for the entry before the cursor

VARIABLES
    \* the job server (server.py): its globals, its threads and the
    \* process-wide output streams
    JOB_STATUS,     \* job id -> "absent", "running", "completed", "failed"
    JOB_OUTPUT,     \* job id -> [exists, val]: the lines recorded for the job
    JOB_LOCK,       \* 0, or the thread that holds the lock
    JOB_ID_COUNTER,
    sys_stdout,     \* 0: the original stream; h: the StringIO of job thread h
    sys_stderr,
    starters,       \* the start_job requests: handler, then job thread
    ask,            \* the get_status request being handled, or the last one
    responded       \* the job ids sent in a job_started response

remoteVars == <<listed, args, twice, gone>>
diskVars == <<d_wrevs, d_pages, d_fetched, d_wstate, d_meta, d_revid, d_git,
              files, index, commits>>
memVars == <<wrevs, rev_no, last_names, last_parents, parent_keys,
             fetched_revids, prev_use_ftml, pages, fetched_pages, page_i,
             n_left, cn>>
histVars == <<runs, kills, hist, start, interrupted, entry, requested>>
slotVars == <<wd, process_time, wall, calls>>
callVars == <<op, url, retries, resps, waits, outcome, failed_images, d_failed,
              present, refused>>
tagVars == <<t_wrevs, t_rev_no, t_tags>>
serverVars == <<JOB_STATUS, JOB_OUTPUT, JOB_LOCK, JOB_ID_COUNTER, sys_stdout,
                sys_stderr, starters, ask, responded>>
clientVars == <<slotVars, callVars, tagVars, serverVars>>
dumpVars == <<remoteVars, diskVars, pc, memVars, histVars>>
vars == <<dumpVars, clientVars>>

NoMeta == [exists |-> FALSE, names |-> NoNames, parents |-> NoNames,
           keys |-> <<>>, use_ftml |-> FALSE]
NoCn == [rev |-> 0, page_name |-> NoName, fname |-> <<NoName, "txt">>,
         verb |-> "", rename |-> FALSE, from |-> NoName, to |-> NoName,
         added |-> {}]
NoStart == [log |-> <<>>, nchange |-> 0, ncommit |-> 0, resumed |-> FALSE]
NoInterrupted == [rev |-> 0, verb |-> "", fname |-> <<NoName, "txt">>,
                  file |-> NoFile]
NoEntry == [log |-> <<>>, wstate |-> -1, meta |-> NoMeta, files |-> EmptyTree]

\* no choice of a tag source made yet
NoTags == [src |-> "", other |-> 0]

\* an entry of hist
Event(e, at) == [ev |-> e, at |-> at]

Running == pc \notin {"idle", "done", "crashed"}

BoolStr(b) == IF b THEN "true" ELSE "false"

\* the commits that archive a change (not the initial, conversion or
\* cleanup commits)
ChangeCommits(cs) == SelectSeq(cs, LAMBDA c : c.kind = "change")
CommittedIds(cs) == {cs[i].rev : i \in {j \in DOMAIN cs : cs[j].kind = "change"}}

(***************************************************************************)
(* RepoMaintainer.__init__: the object a new process starts with.          *)
(***************************************************************************)
InitMem ==
    /\ wrevs = <<>>
    /\ rev_no = 0
    /\ last_names = NoNames
    /\ last_parents = NoNames
    /\ parent_keys = <<>>
    /\ fetched_revids = {}
    /\ prev_use_ftml = "none"
    /\ pages = <<>>
    /\ fetched_pages = {}
    /\ page_i = 0
    /\ n_left = 0
    /\ cn = NoCn

ResetMem ==
    /\ wrevs' = <<>>
    /\ rev_no' = 0
    /\ last_names' = NoNames
    /\ last_parents' = NoNames
    /\ parent_keys' = <<>>
    /\ fetched_revids' = {}
    /\ prev_use_ftml' = "none"
    /\ pages' = <<>>
    /\ fetched_pages' = {}
    /\ page_i' = 0
    /\ n_left' = 0
    /\ cn' = NoCn

\* the skip lists an operator may give: none, one revision, one page
SkipChoices == { [revs |-> {}, pages |-> {}],
                 [revs |-> {3}, pages |-> {}],
                 [revs |-> {}, pages |-> {"p"}] }

(***************************************************************************)
(* server.py: the module's globals when the server starts to listen.       *)
(***************************************************************************)
\* the number of start_job requests the server gets
MaxJobs == 2

\* str() of a job counter
Digits == <<"0", "1", "2", "3", "4", "5", "6", "7", "8", "9">>
Str(n) == Digits[n + 1]
JobIds == {Str(n) : n \in 0..(MaxJobs - 1)}

\* the target directories of the dump jobs
Dirs == {"a", "b"}

\* a start_job request that has not come in: no handler, no job thread
NoStarter == [pc |-> "none", job_id |-> "", dump |-> "", old_stdout |-> 0,
              old_stderr |-> 0, buf |-> <<>>, result |-> "none"]
\* no get_status request is being handled and none was
NoAsk == [pc |-> "none", job_id |-> "", known |-> FALSE, resp |-> "none"]

InitServer ==
    /\ JOB_STATUS = [id \in JobIds |-> "absent"]
    /\ JOB_OUTPUT = [id \in JobIds |-> [exists |-> FALSE, val |-> <<>>]]
    /\ JOB_LOCK = 0
    /\ JOB_ID_COUNTER = 0
    /\ sys_stdout = 0
    /\ sys_stderr = 0
    /\ starters = [h \in 1..MaxJobs |-> NoStarter]
    /\ ask = NoAsk
    /\ responded = {}

InitDump ==
    /\ InitServer
    /\ listed = {"s", "p"}
    /\ args \in { [use_ftml |-> f, revids |-> r, cleanup |-> c,
                   revs_to_skip |-> k.revs, pages_to_skip |-> k.pages] :
                  f \in BOOLEAN, r \in BOOLEAN, c \in BOOLEAN, k \in SkipChoices }
    /\ d_wrevs = [exists |-> FALSE, val |-> <<>>]
    /\ d_pages = [exists |-> FALSE, val |-> <<>>]
    /\ d_fetched = <<>>
    /\ d_wstate = -1
    /\ d_meta = NoMeta
    /\ d_revid = -1
    /\ d_git = FALSE
    /\ files = EmptyTree
    /\ index = EmptyTree
    /\ commits = <<>>
    /\ pc = "idle"
    /\ InitMem
    /\ runs = 0
    /\ kills = 0
    /\ hist = <<>>
    /\ start = NoStart
    /\ interrupted = NoInterrupted
    /\ entry = NoEntry
    /\ requested = {}
    /\ d_failed = [exists |-> FALSE, val |-> {}]
    /\ present = {}
    /\ refused = {}
    /\ t_wrevs = <<>>
    /\ t_rev_no = 0
    /\ t_tags = NoTags

\* no call of the client is in progress
NoUrl == ""
NoCall ==
    /\ op = "none"
    /\ url = NoUrl
    /\ retries = 0
    /\ resps = <<>>
    /\ waits = <<>>
    /\ outcome = "none"

\* Wikidot.__init__, then wd.delay = args.delay in run_crawl_job: the first
\* request may go out at once
InitWikidot(d, t0) ==
    /\ wd = [delay |-> d, next_timeslot |-> t0]
    /\ process_time = t0
    /\ wall = 0
    /\ calls = <<>>
    /\ failed_images = {}
    /\ NoCall

Init == InitDump /\ twice = {} /\ gone = {} /\ InitWikidot(delay, 0)


(***************************************************************************)
(* crawl.py run_crawl_job, --dump: a new process constructs the            *)
(* RepoMaintainer and sets its options from the command line.              *)
(***************************************************************************)
StartRun ==
    /\ UNCHANGED clientVars
    /\ ~Running
    /\ runs < MaxRuns
    /\ ResetMem
    /\ pc' = "build"
    /\ runs' = runs + 1
    /\ start' = [log |-> d_fetched,
                 nchange |-> Len(ChangeCommits(commits)),
                 ncommit |-> Len(commits),
                 resumed |-> d_wrevs.exists /\ d_wstate >= 0 /\ d_fetched # <<>>]
    /\ entry' = NoEntry
    /\ requested' = {}
    /\ UNCHANGED <<remoteVars, diskVars, kills, hist, interrupted>>

(***************************************************************************)
(* RepoMaintainer.loadFetchedRevids: the set of the lines of .fetched.txt  *)
(***************************************************************************)
\* faulty variant: the log is not read back
LoadFetchedRevidsNone(log) == {}

LoadFetchedRevids(log) == Range(log)

\* faulty variant: a cached list that has entries is taken to cover every
\* page
FetchedPagesAll(loaded) == IF loaded = <<>> THEN {} ELSE PageNames

\* the first loop of buildRevisionList: the page names the cached list has
\* entries for
FetchedPages(loaded) == {loaded[i].page_name : i \in DOMAIN loaded}

(***************************************************************************)
(* buildRevisionList, up to the page loop: load the cached list, the       *)
(* committed ids and the page list, and collect the page names the cached  *)
(* list already has revisions for.                                         *)
(***************************************************************************)
BuildBegin ==
    /\ UNCHANGED clientVars
    /\ pc = "build"
    /\ LET loaded == IF d_wrevs.exists THEN d_wrevs.val ELSE <<>>
           cached == IF d_pages.exists THEN d_pages.val ELSE <<>>
           relist == cached = <<>> \/ Len(cached) < max_page_count
           pgs == IF relist THEN ListPages(listed, twice) ELSE cached
       IN  /\ wrevs' = loaded
           /\ fetched_revids' = IF d_fetched # <<>>
                                THEN LoadFetchedRevids(d_fetched) ELSE {}
           /\ pages' = pgs
           /\ d_pages' = IF relist THEN [exists |-> TRUE, val |-> pgs] ELSE d_pages
           /\ fetched_pages' = FetchedPages(loaded)
    /\ page_i' = 1
    /\ pc' = "pages"
    /\ UNCHANGED <<remoteVars, d_wrevs, d_fetched, d_wstate, d_meta, d_revid,
                   d_git, files, index, commits, rev_no, last_names,
                   last_parents, parent_keys, prev_use_ftml, n_left, cn,
                   histVars>>

\* the entries buildRevisionList appends for one page: its revisions that
\* are not in the committed set
NewRevs(page, pid, fetched) ==
    LET revs == GetRevisions(pid, max_depth)
        keep == SelectSeq(revs, LAMBDA r : r \notin fetched)
    IN  [i \in DOMAIN keep |->
            [rev_id |-> keep[i], page_id |-> pid, page_name |-> page]]

(***************************************************************************)
(* buildRevisionList, one iteration of the page loop.                      *)
(***************************************************************************)
BuildPage ==
    /\ UNCHANGED clientVars
    /\ pc = "pages"
    /\ page_i <= Len(pages)
    /\ LET page == pages[page_i]
       IN  IF page \in fetched_pages \/ page = "sandbox"
           THEN /\ page_i' = page_i + 1
                /\ UNCHANGED <<wrevs, d_wrevs, pc, hist>>
           ELSE IF page \in gone
           THEN \* get_page_id raises
                /\ pc' = "crashed"
                /\ hist' = Append(hist, Event("crash", "compile"))
                /\ UNCHANGED <<wrevs, d_wrevs, page_i>>
           ELSE LET ext == wrevs \o NewRevs(page, GetPageId(page), fetched_revids)
                IN  /\ wrevs' = ext
                    /\ d_wrevs' = [exists |-> TRUE, val |-> ext]
                    /\ page_i' = page_i + 1
                    /\ UNCHANGED <<pc, hist>>
    /\ UNCHANGED <<remoteVars, d_pages, d_fetched, d_wstate, d_meta, d_revid,
                   d_git, files, index, commits, rev_no, last_names,
                   last_parents, parent_keys, fetched_revids, prev_use_ftml,
                   pages, fetched_pages, n_left, cn, runs, kills, start,
                   interrupted, entry, requested>>

\* wrevs.sort(key=lambda rev: rev['date']): a stable sort
RECURSIVE InsertByDate(_, _)
InsertByDate(s, e) ==
    IF s = <<>> THEN <<e>>
    ELSE LET l == s[Len(s)]
         IN  IF RevDate[l.rev_id] <= RevDate[e.rev_id]
             THEN Append(s, e)
             ELSE Append(InsertByDate(SubSeq(s, 1, Len(s) - 1), e), l)

RECURSIVE SortFrom(_, _)
SortFrom(done, rest) ==
    IF rest = <<>> THEN done
    ELSE SortFrom(InsertByDate(done, Head(rest)), Tail(rest))

\* faulty variant: the list is left in the order it was appended in
SortByDateNot(s) == s

SortByDate(s) == SortFrom(<<>>, s)

(***************************************************************************)
(* buildRevisionList, after the page loop: loadMetadata, then the sort.    *)
(***************************************************************************)
BuildFinish ==
    /\ UNCHANGED clientVars
    /\ pc = "pages"
    /\ page_i > Len(pages)
    /\ IF d_meta.exists
       THEN /\ last_names' = d_meta.names
            /\ last_parents' = d_meta.parents
            /\ parent_keys' = d_meta.keys
            /\ prev_use_ftml' = BoolStr(d_meta.use_ftml)
            /\ fetched_revids' = LoadFetchedRevids(d_fetched)
       ELSE UNCHANGED <<last_names, last_parents, parent_keys, prev_use_ftml,
                        fetched_revids>>
    /\ wrevs' = SortByDate(wrevs)
    /\ pc' = "open"
    /\ UNCHANGED <<remoteVars, diskVars, rev_no, pages, fetched_pages, page_i,
                   n_left, cn, histVars>>

(***************************************************************************)
(* buildRevisionList run from the files on disk to its end without a stop: *)
(* the page loop as a function of the loaded list, and the list the whole  *)
(* compile yields.                                                         *)
(***************************************************************************)
RECURSIVE PageLoop(_, _, _, _)
PageLoop(list, fp, fetched, pgs) ==
    IF pgs = <<>> THEN list
    ELSE LET page == Head(pgs)
         IN  IF page \in fp \/ page = "sandbox"
             THEN PageLoop(list, fp, fetched, Tail(pgs))
             ELSE PageLoop(list \o NewRevs(page, GetPageId(page), fetched),
                           fp, fetched, Tail(pgs))

Uninterrupted(cache, pagesFile, log, site) ==
    LET loaded == IF cache.exists THEN cache.val ELSE <<>>
        cached == IF pagesFile.exists THEN pagesFile.val ELSE <<>>
        relist == cached = <<>> \/ Len(cached) < max_page_count
        pgs == IF relist THEN ListPages(site, twice) ELSE cached
        fetched == IF log # <<>> THEN LoadFetchedRevids(log) ELSE {}
    IN  SortByDate(PageLoop(loaded, FetchedPages(loaded), fetched, pgs))


(***************************************************************************)
(* openRepo: both maps are set to {} again, then the repository is opened  *)
(* (and the cursor loaded when .wstate exists) or created.  In a new       *)
(* repository with storeRevIds set, self.index is still None when          *)
(* self.index.commit is called, so the call raises.                        *)
(***************************************************************************)
OpenRepo ==
    /\ UNCHANGED clientVars
    /\ pc = "open"
    /\ last_names' = NoNames
    /\ last_parents' = NoNames
    /\ parent_keys' = <<>>
    /\ IF d_git
       THEN /\ rev_no' = IF d_wstate >= 0 THEN d_wstate ELSE rev_no
            /\ pc' = "opened"
            /\ UNCHANGED <<d_git, d_revid, hist>>
       ELSE /\ d_git' = TRUE
            /\ rev_no' = 0
            /\ IF args.revids
               THEN /\ d_revid' = 0
                    /\ pc' = "crashed"
                    /\ hist' = Append(hist, Event("crash", "open"))
               ELSE /\ pc' = "opened"
                    /\ UNCHANGED <<d_revid, hist>>
    /\ UNCHANGED <<remoteVars, d_wrevs, d_pages, d_fetched, d_wstate, d_meta,
                   files, index, commits, wrevs, fetched_revids,
                   prev_use_ftml, pages, fetched_pages, page_i, n_left, cn,
                   runs, kills, start,
                   interrupted, entry,
                   requested>>

(***************************************************************************)
(* git mv -f (IndexFile.move with force=True): the file is moved in the    *)
(* working tree and in the index; a source that is not in the index is an  *)
(* error.                                                                  *)
(***************************************************************************)
\* faulty variant: the source is copied and stays where it was
GitMvCopy(wt, ix, from, to) ==
    IF ~IsFile(ix, from)
    THEN [files |-> wt, index |-> ix, ok |-> FALSE]
    ELSE [files |-> [wt EXCEPT ![to] = wt[from]],
          index |-> [ix EXCEPT ![to] = ix[from]],
          ok |-> TRUE]

GitMv(wt, ix, from, to) ==
    IF ~IsFile(ix, from)
    THEN [files |-> wt, index |-> ix, ok |-> FALSE]
    ELSE [files |-> [wt EXCEPT ![to] = wt[from], ![from] = NoFile],
          index |-> [ix EXCEPT ![to] = ix[from], ![from] = NoFile],
          ok |-> TRUE]

\* IndexFile.add: stage the working-tree content of the given paths
GitAdd(wt, ix, paths) == [f \in FileKeys |-> IF f \in paths THEN wt[f] ELSE ix[f]]

NoCommit == [kind |-> "none", rev |-> 0, verb |-> "", from |-> NoName,
             name |-> NoName, paths |-> {}, tree |-> EmptyTree]

(***************************************************************************)
(* crawl.py: convertFormat is called when the new format is asked for and  *)
(* the recorded format flag is not the same.                               *)
(***************************************************************************)
NeedConvert == args.use_ftml /\ BoolStr(args.use_ftml) # prev_use_ftml

\* convertFormat(use_ftml=True), the loop over the cached page list
RECURSIVE ConvertPages(_, _, _, _)
ConvertPages(pgs, wt, ix, added) ==
    IF pgs = <<>> THEN [files |-> wt, index |-> ix, added |-> added, ok |-> TRUE]
    ELSE LET page == Head(pgs)
             src == <<page, "txt">>
             dst == <<page, "ftml">>
         IN  IF IsFile(wt, src)
             THEN LET framed == [wt EXCEPT ![src].ftml = TRUE]
                      mv == GitMv(framed, ix, src, dst)
                  IN  IF mv.ok
                      THEN ConvertPages(Tail(pgs), mv.files, mv.index,
                                        added \cup {dst})
                      ELSE [files |-> framed, index |-> ix, added |-> added,
                            ok |-> FALSE]
             ELSE ConvertPages(Tail(pgs), wt, ix, added)

ConvertFormat ==
    /\ UNCHANGED clientVars
    /\ pc = "opened"
    /\ NeedConvert
    /\ LET r == ConvertPages(d_pages.val, files, index, {})
       IN  IF d_pages.exists /\ r.ok
           THEN /\ files' = r.files
                /\ index' = GitAdd(r.files, r.index, r.added)
                /\ commits' = Append(commits,
                       [NoCommit EXCEPT !.kind = "convert", !.paths = r.added,
                                        !.tree = index'])
                /\ pc' = "converted"
                /\ UNCHANGED hist
           ELSE /\ files' = IF d_pages.exists THEN r.files ELSE files
                /\ index' = IF d_pages.exists THEN r.index ELSE index
                /\ pc' = "crashed"
                /\ hist' = Append(hist, Event("crash", "convert"))
                /\ UNCHANGED commits
    /\ UNCHANGED <<remoteVars, d_wrevs, d_pages, d_fetched, d_wstate, d_meta,
                   d_revid, d_git, memVars, runs, kills, start,
                   interrupted, entry,
                   requested>>

(***************************************************************************)
(* fetchAll, before its loop: count the entries whose id is not in the     *)
(* committed set; commitNext is called that many times.                    *)
(***************************************************************************)
ToFetch(list, fetched) ==
    Len(SelectSeq(list, LAMBDA e : e.rev_id \notin fetched))

FetchAllBegin ==
    /\ UNCHANGED clientVars
    /\ \/ pc = "opened" /\ ~NeedConvert
       \/ pc = "converted"
    /\ n_left' = ToFetch(wrevs, fetched_revids)
    /\ pc' = "loop"
    /\ UNCHANGED <<remoteVars, diskVars, wrevs, rev_no, last_names,
                   last_parents, parent_keys, fetched_revids, prev_use_ftml,
                   pages, fetched_pages, page_i, cn, histVars>>


(***************************************************************************)
(* updateParentField: rewrite the parent line of the child's .txt file.    *)
(* A child with no .txt file is logged and left alone; content.index       *)
(* raises when the file has no line 'parent: <old>'.                       *)
(***************************************************************************)
UpdateParentField(wt, child, old, new) ==
    LET path == <<WinSafe(child), "txt">>
    IN  IF ~IsFile(wt, path) THEN [files |-> wt, ok |-> TRUE]
        ELSE IF wt[path].parent # old THEN [files |-> wt, ok |-> FALSE]
        ELSE [files |-> [wt EXCEPT ![path].parent = new], ok |-> TRUE]

\* updateChildren: every key of last_parents whose value is the old name
RECURSIVE UpdateChildren(_, _, _, _, _)
UpdateChildren(wt, keys, parents, old, new) ==
    IF keys = <<>> THEN [files |-> wt, ok |-> TRUE]
    ELSE LET child == Head(keys)
         IN  IF parents[child] = old /\ parents[child] # new
             THEN LET r == UpdateParentField(wt, child, parents[child], new)
                  IN  IF r.ok
                      THEN UpdateChildren(r.files, Tail(keys), parents, old, new)
                      ELSE r
             ELSE UpdateChildren(wt, Tail(keys), parents, old, new)

\* the test of commitNext for a change that is already archived
\* faulty variant: the test is missing
AlreadyFetchedNever(rev_id, fetched) == FALSE

AlreadyFetched(rev_id, fetched) == rev_id \in fetched

(***************************************************************************)
(* commitNext, from its entry to the progress line before the commit:      *)
(* the early returns (list exhausted, change already archived, change in   *)
(* a skip list), else the requests for the revision and every write made   *)
(* before the commit: .revid, the parent map, the rename with the update   *)
(* of the children, the rename map and the page file.                      *)
(***************************************************************************)
CommitNextBegin ==
    /\ UNCHANGED clientVars
    /\ pc = "loop"
    /\ n_left > 0
    /\ IF rev_no >= Len(wrevs)
       THEN /\ n_left' = n_left - 1
            /\ UNCHANGED <<d_wstate, d_revid, files, index, pc, rev_no,
                           last_names, last_parents, parent_keys, cn, hist>>
       ELSE
       LET rev == wrevs[rev_no + 1]
           unixname == rev.page_name
           rev_unixname == RevName[rev.rev_id]
           comment == RevComment[rev.rev_id]
       IN  IF AlreadyFetched(rev.rev_id, fetched_revids)
           THEN /\ rev_no' = rev_no + 1
                /\ d_wstate' = rev_no + 1
                /\ n_left' = n_left - 1
                /\ UNCHANGED <<d_revid, files, index, pc, last_names,
                               last_parents, parent_keys, cn, hist>>
           ELSE IF rev.rev_id \in args.revs_to_skip
                   \/ unixname \in args.pages_to_skip
           THEN /\ n_left' = n_left - 1
                /\ UNCHANGED <<d_wstate, d_revid, files, index, pc, rev_no,
                               last_names, last_parents, parent_keys, cn, hist>>
           ELSE
           LET isParent == comment.kind = "parent"
               parent_unixname == IF isParent THEN comment.parent
                                  ELSE last_parents[unixname]
               parents1 == IF isParent
                           THEN [last_parents EXCEPT ![unixname] = comment.parent]
                           ELSE last_parents
               keys1 == IF isParent /\ last_parents[unixname] = NoName
                        THEN Append(parent_keys, unixname) ELSE parent_keys
               fname == FName(rev_unixname, args.use_ftml)
               rename == last_names[unixname] # NoName
                         /\ last_names[unixname] # rev_unixname
               from == FName(last_names[unixname], args.use_ftml)
               uc == IF rename
                     THEN UpdateChildren(files, keys1, parents1,
                                         last_names[unixname], rev_unixname)
                     ELSE [files |-> files, ok |-> TRUE]
               doMove == rename /\ uc.ok /\ IsFile(uc.files, from)
               mv == IF doMove THEN GitMv(uc.files, index, from, fname)
                     ELSE [files |-> uc.files, index |-> index, ok |-> TRUE]
               verb == IF rename THEN (IF doMove THEN "Renamed" ELSE "")
                       ELSE IF ~IsFile(files, fname) THEN "Created"
                       ELSE IF comment.kind = "" THEN "Updated"
                       ELSE ""
           IN  /\ d_revid' = IF args.revids THEN rev.rev_id ELSE d_revid
               /\ index' = mv.index
               /\ IF uc.ok /\ mv.ok
                  THEN /\ files' = [mv.files EXCEPT ![fname] =
                                       [src |-> rev.rev_id,
                                        parent |-> parent_unixname,
                                        ftml |-> args.use_ftml]]
                       /\ last_parents' = parents1
                       /\ parent_keys' = keys1
                       /\ last_names' = [last_names EXCEPT ![unixname] = rev_unixname]
                       /\ cn' = [rev |-> rev.rev_id, page_name |-> unixname,
                                 fname |-> fname, verb |-> verb,
                                 rename |-> rename,
                                 from |-> IF rename THEN last_names[unixname]
                                          ELSE NoName,
                                 to |-> rev_unixname,
                                 added |-> {fname}]
                       /\ pc' = "append"
                       /\ UNCHANGED <<n_left, hist>>
                  ELSE /\ files' = mv.files
                       /\ pc' = "crashed"
                       /\ hist' = Append(hist, Event("crash", "commit"))
                       /\ UNCHANGED <<last_parents, parent_keys, last_names,
                                      cn, n_left>>
               /\ UNCHANGED <<d_wstate, rev_no>>
    /\ UNCHANGED <<remoteVars, d_wrevs, d_pages, d_fetched, d_meta, d_git,
                   commits, wrevs, fetched_revids, prev_use_ftml, pages,
                   fetched_pages, page_i, runs, kills, start,
                   interrupted>>
    /\ entry' = IF pc' = "append"
                THEN [log |-> d_fetched, wstate |-> d_wstate, meta |-> d_meta,
                      files |-> files]
                ELSE entry
    /\ requested' = IF pc' = "loop" THEN requested
                    ELSE requested \cup {wrevs[rev_no + 1].rev_id}

\* appendFetchedRevid
CommitNextAppend ==
    /\ UNCHANGED clientVars
    /\ pc = "append"
    /\ d_fetched' = Append(d_fetched, cn.rev)
    /\ pc' = "commit"
    /\ UNCHANGED <<remoteVars, d_wrevs, d_pages, d_wstate, d_meta, d_revid,
                   d_git, files, index, commits, memVars, runs, kills,
                   hist, start, interrupted, requested>>
    /\ entry' = NoEntry

\* saveMetadata, index.add(added_file_paths), index.commit
CommitNextCommit ==
    /\ UNCHANGED clientVars
    /\ pc = "commit"
    /\ d_meta' = [exists |-> TRUE, names |-> last_names,
                  parents |-> last_parents, keys |-> parent_keys,
                  use_ftml |-> args.use_ftml]
    /\ index' = GitAdd(files, index, cn.added)
    /\ commits' = Append(commits,
           [kind |-> "change", rev |-> cn.rev, verb |-> cn.verb,
            from |-> cn.from, name |-> cn.to, paths |-> cn.added,
            tree |-> index'])
    /\ pc' = "save"
    /\ UNCHANGED <<remoteVars, d_wrevs, d_pages, d_fetched, d_wstate, d_revid,
                   d_git, files, memVars, histVars>>

\* fetched_revids.add, rev_no += 1, saveState; back in the loop of fetchAll
CommitNextSave ==
    /\ UNCHANGED clientVars
    /\ pc = "save"
    /\ fetched_revids' = fetched_revids \cup {cn.rev}
    /\ rev_no' = rev_no + 1
    /\ d_wstate' = rev_no + 1
    /\ n_left' = n_left - 1
    /\ cn' = NoCn
    /\ pc' = "loop"
    /\ UNCHANGED <<remoteVars, d_wrevs, d_pages, d_fetched, d_meta, d_revid,
                   d_git, files, index, commits, wrevs, last_names,
                   last_parents, parent_keys, prev_use_ftml, pages,
                   fetched_pages, page_i, histVars>>

(***************************************************************************)
(* The loop of fetchAll has ended: run_crawl_job calls cleanup when asked  *)
(* to, and returns.                                                        *)
(***************************************************************************)
FetchAllEnd ==
    /\ UNCHANGED clientVars
    /\ pc = "loop"
    /\ n_left = 0
    /\ IF args.cleanup
       THEN pc' = "cleanup" /\ UNCHANGED hist
       ELSE pc' = "done" /\ hist' = Append(hist, Event("done", "done"))
    /\ UNCHANGED <<remoteVars, diskVars, memVars, runs, kills, start,
                   interrupted, entry,
                   requested>>

\* faulty variant: the committed-id log is removed as well
CleanupWithLog ==
    /\ UNCHANGED clientVars
    /\ pc = "cleanup"
    /\ d_wstate' = -1
    /\ d_wrevs' = [exists |-> FALSE, val |-> <<>>]
    /\ d_pages' = [exists |-> FALSE, val |-> <<>>]
    /\ d_fetched' = <<>>
    /\ commits' = IF rev_no > 0
                  THEN Append(commits, [NoCommit EXCEPT !.kind = "cleanup",
                                                        !.tree = index])
                  ELSE commits
    /\ pc' = "done"
    /\ hist' = Append(hist, Event("done", "done"))
    /\ UNCHANGED <<remoteVars, d_meta, d_revid, d_git, files,
                   index, memVars, runs, kills, start,
                   interrupted, entry,
                   requested>>

\* cleanup: remove .wstate, .wrevs and .pages; commit .fetched.txt
Cleanup ==
    /\ UNCHANGED clientVars
    /\ pc = "cleanup"
    /\ d_wstate' = -1
    /\ d_wrevs' = [exists |-> FALSE, val |-> <<>>]
    /\ d_pages' = [exists |-> FALSE, val |-> <<>>]
    /\ commits' = IF rev_no > 0
                  THEN Append(commits, [NoCommit EXCEPT !.kind = "cleanup",
                                                        !.tree = index])
                  ELSE commits
    /\ pc' = "done"
    /\ hist' = Append(hist, Event("done", "done"))
    /\ UNCHANGED <<remoteVars, d_fetched, d_meta, d_revid, d_git, files,
                   index, memVars, runs, kills, start,
                   interrupted, entry,
                   requested>>

(***************************************************************************)
(* The environment: the process is killed; the site lists a new page.      *)
(***************************************************************************)
Kill ==
    /\ UNCHANGED clientVars
    /\ Running
    /\ kills < MaxKills
    /\ kills' = kills + 1
    /\ hist' = Append(hist, Event("kill", pc))
    /\ pc' = "idle"
    /\ interrupted' = IF pc = "append"
                      THEN [rev |-> cn.rev, verb |-> cn.verb,
                            fname |-> cn.fname, file |-> files[cn.fname]]
                      ELSE interrupted
    /\ entry' = NoEntry
    /\ requested' = {}
    /\ ResetMem
    /\ UNCHANGED <<remoteVars, diskVars, runs, start>>

RemoteGrow ==
    /\ UNCHANGED clientVars
    /\ ~Running
    /\ "c:n" \notin listed
    /\ listed' = listed \cup {"c:n"}
    /\ hist' = Append(hist, Event("grow", pc))
    /\ UNCHANGED <<args, twice, gone, diskVars, pc, memVars, runs, kills, start,
                   interrupted, entry,
                   requested>>

Next ==
    \/ StartRun
    \/ BuildBegin
    \/ BuildPage
    \/ BuildFinish
    \/ OpenRepo
    \/ ConvertFormat
    \/ FetchAllBegin
    \/ CommitNextBegin
    \/ CommitNextAppend
    \/ CommitNextCommit
    \/ CommitNextSave
    \/ FetchAllEnd
    \/ Cleanup
    \/ Kill
    \/ RemoteGrow

Spec == Init /\ [][Next]_vars


(***************************************************************************)
(* The request slots of the Protocol Client, on their own: one Wikidot     *)
(* object in a single-threaded process.  time.process_time() counts the    *)
(* CPU time of the process and stands still while the process sleeps or    *)
(* waits for the network; time.sleep suspends for at least the time asked. *)
(***************************************************************************)
\* calls of _wait_request_slot followed
MaxCalls == 3
\* wall-clock time followed, msec
MaxWall == 4000

Delays == {0, 500, delay}
Steps == {0, 500, 1000}

\* the time _wait_request_slot sleeps
\* faulty variant: it never sleeps
SleepForNone(next, tm) == 0

SleepFor(next, tm) == IF next - tm > 0 THEN next - tm ELSE 0

ClientInit ==
    /\ InitDump
    /\ twice = {}
    /\ gone = {}
    /\ args.revs_to_skip = {} /\ args.pages_to_skip = {}
    /\ ~args.use_ftml /\ ~args.revids /\ ~args.cleanup
    /\ \E d \in Delays, t0 \in {0, 500} : InitWikidot(d, t0)

\* _wait_request_slot; the request is released when it returns
WaitRequestSlot ==
    /\ Len(calls) < MaxCalls
    /\ UNCHANGED <<process_time, dumpVars, callVars, tagVars, serverVars>>
    /\ LET tm == process_time
           secs == SleepFor(wd.next_timeslot, tm)
       IN  \E late \in {0, 500} :
              /\ wall + secs + late <= MaxWall
              /\ wall' = wall + secs + late
              /\ wd' = [wd EXCEPT !.next_timeslot = tm + wd.delay]
              /\ calls' = Append(calls,
                     [tm |-> tm, before |-> wd.next_timeslot,
                      entered |-> wall, released |-> wall',
                      cpu |-> process_time', after |-> tm + wd.delay])

\* between two calls the process sends the request, waits for the answer
\* and works on it: wall-clock time passes, and of it the process spends
\* some part on the CPU
Work ==
    /\ \E c \in Steps, w \in Steps :
          /\ c <= w
          /\ w > 0
          /\ wall + w <= MaxWall
          /\ process_time' = process_time + c
          /\ wall' = wall + w
    /\ UNCHANGED <<wd, calls, dumpVars, callVars, tagVars, serverVars>>

ClientNext ==
    \/ WaitRequestSlot
    \/ Work

ClientSpec == ClientInit /\ [][ClientNext]_vars


(***************************************************************************)
(* Runs in which a call of the Protocol Client made by commitNext fails    *)
(* for good: queryex gives up after max_retries and raises, or             *)
(* maybe_download_file re-raises the error of a download that broke off.   *)
(* Nothing catches the exception, so the process ends.                     *)
(***************************************************************************)
\* the revisions whose rendered version shows images (details['images'])
RevImages == {2, 3}

\* get_revision_source, get_revision_version or the tag request raises:
\* commitNext has written nothing yet
CommitNextFetchFail ==
    /\ UNCHANGED clientVars
    /\ pc = "loop"
    /\ n_left > 0
    /\ rev_no < Len(wrevs)
    /\ LET rev == wrevs[rev_no + 1]
       IN  /\ ~AlreadyFetched(rev.rev_id, fetched_revids)
           /\ rev.rev_id \notin args.revs_to_skip
           /\ rev.page_name \notin args.pages_to_skip
    /\ entry' = [log |-> d_fetched, wstate |-> d_wstate, meta |-> d_meta,
                 files |-> files]
    /\ requested' = requested \cup {wrevs[rev_no + 1].rev_id}
    /\ pc' = "crashed"
    /\ hist' = Append(hist, Event("error", "fetch"))
    /\ UNCHANGED <<remoteVars, diskVars, memVars, runs, kills, start,
                   interrupted>>

\* maybe_download_file raises in the image loop, which runs after .revid,
\* the rename and the page file were written and before the append
CommitNextImageFail ==
    /\ UNCHANGED clientVars
    /\ pc = "append"
    /\ cn.rev \in RevImages
    /\ pc' = "crashed"
    /\ hist' = Append(hist, Event("error", "images"))
    /\ UNCHANGED <<remoteVars, diskVars, memVars, runs, kills, start,
                   interrupted, entry,
                   requested>>

ErrNext ==
    \/ Next
    \/ CommitNextFetchFail
    \/ CommitNextImageFail

ErrSpec == Init /\ [][ErrNext]_vars


(***************************************************************************)
(* Runs against a site whose listing may name a page on two listing pages  *)
(* (list_pages appends the names of every listing page it fetches).        *)
(***************************************************************************)
DupInit ==
    /\ InitDump
    /\ twice \in {{}, {"p"}}
    /\ gone = {}
    /\ InitWikidot(delay, 0)

DupSpec == DupInit /\ [][Next]_vars


(***************************************************************************)
(* Runs against a site on which a listed page may have been deleted: the   *)
(* request for the page (get_page_id) is answered 404, or with a page that *)
(* carries no page id.                                                     *)
(***************************************************************************)
GoneInit ==
    /\ InitDump
    /\ twice = {}
    /\ gone \in {{}, {"p"}}
    /\ InitWikidot(delay, 0)

GoneSpec == GoneInit /\ [][Next]_vars


(***************************************************************************)
(* The calls of the Protocol Client, one at a time: queryex, get_page_id   *)
(* and maybe_download_file as commitNext's image loop calls it.  A step    *)
(* is one pass of the call's retry loop: the request, its answer and what  *)
(* the code does on it, up to the return of the call and, for a download   *)
(* that returned False, saveFailedImages in the caller.                    *)
(***************************************************************************)
max_retries == 5

Urls == {"u1", "u2"}

\* the answers a request can get
QueryResps == {"timeout", "5xx", "badjson", "notok", "ok"}
PageResps == {"timeout", "5xx", "4xx", "noid", "ok"}
FileResps == {"timeout", "5xx", "4xx", "invalid", "oserror", "toolong", "ok"}

\* time.sleep(retries * retries * retries), after retries += 1
\* faulty variant: the sleep grows with the counter only
BackoffLinear(k) == k

Backoff(k) == k * k * k

\* faulty variant: the file is not read back
LoadFailedImagesNone(file) == {}

\* loadFailedImages
LoadFailedImages(file) == IF file.exists THEN file.val ELSE {}

\* saveFailedImages
SaveFailedImages(set) == [exists |-> TRUE, val |-> set]

CallInit ==
    /\ InitDump
    /\ twice = {}
    /\ gone = {}
    /\ args.revs_to_skip = {} /\ args.pages_to_skip = {}
    /\ ~args.use_ftml /\ ~args.revids /\ ~args.cleanup
    /\ InitWikidot(delay, 0)

\* the caller is between two calls
Free == op = "none" \/ outcome # "none"

\* retries += 1; time.sleep(...); continue
Retry ==
    /\ retries' = retries + 1
    /\ waits' = Append(waits, Backoff(retries + 1))

QueryexBegin ==
    /\ Free
    /\ op' = "queryex"
    /\ url' = NoUrl
    /\ retries' = 0
    /\ resps' = <<>>
    /\ waits' = <<>>
    /\ outcome' = "none"
    /\ UNCHANGED <<failed_images, d_failed, present, refused, slotVars, tagVars, serverVars,
                   dumpVars>>

\* one pass of the loop of queryex; when the loop ends the call raises
QueryexTry ==
    /\ op = "queryex" /\ outcome = "none"
    /\ retries < max_retries
    /\ \E r \in QueryResps :
          /\ resps' = Append(resps, r)
          /\ IF r = "ok"
             THEN /\ outcome' = "returned"
                  /\ UNCHANGED <<retries, waits>>
             ELSE IF r = "badjson" /\ ~(retries < max_retries)
             THEN /\ outcome' = "raised"
                  /\ UNCHANGED <<retries, waits>>
             ELSE /\ Retry
                  /\ outcome' = IF retries + 1 < max_retries
                                THEN "none" ELSE "raised"
    /\ UNCHANGED <<op, url, failed_images, d_failed, present, refused,
                   slotVars, tagVars, serverVars,
                   dumpVars>>

GetPageIdBegin ==
    /\ Free
    /\ op' = "get_page_id"
    /\ url' = NoUrl
    /\ retries' = 0
    /\ resps' = <<>>
    /\ waits' = <<>>
    /\ outcome' = "none"
    /\ UNCHANGED <<failed_images, d_failed, present, refused, slotVars, tagVars, serverVars,
                   dumpVars>>

\* one pass of the loop of get_page_id; when the loop ends without an
\* answer, req is None or the last 5xx answer, and reading the page id from
\* it raises
GetPageIdTry ==
    /\ op = "get_page_id" /\ outcome = "none"
    /\ retries < max_retries
    /\ \E r \in PageResps :
          /\ resps' = Append(resps, r)
          /\ IF r \in {"timeout", "5xx"}
             THEN /\ Retry
                  /\ outcome' = IF retries + 1 < max_retries
                                THEN "none" ELSE "raised"
             ELSE /\ outcome' = IF r = "ok" THEN "returned" ELSE "raised"
                  /\ UNCHANGED <<retries, waits>>
    /\ UNCHANGED <<op, url, failed_images, d_failed, present, refused,
                   slotVars, tagVars, serverVars,
                   dumpVars>>

\* maybe_download_file up to its loop: no request for an asset marked failed
\* or already on disk; the call returns False and the caller saves the set
MaybeDownloadFileBegin ==
    /\ Free
    /\ \E u \in Urls :
          /\ op' = "download"
          /\ url' = u
          /\ IF u \in failed_images \/ u \in present
             THEN /\ outcome' = "false"
                  /\ d_failed' = SaveFailedImages(failed_images)
             ELSE /\ outcome' = "none"
                  /\ UNCHANGED d_failed
    /\ retries' = 0
    /\ resps' = <<>>
    /\ waits' = <<>>
    /\ UNCHANGED <<failed_images, present, refused, slotVars, tagVars, serverVars,
                   dumpVars>>

\* one pass of the loop of maybe_download_file
MaybeDownloadFileTry ==
    /\ op = "download" /\ outcome = "none"
    /\ retries < max_retries
    /\ \E r \in FileResps :
          /\ resps' = Append(resps, r)
          /\ refused' = IF r = "4xx" THEN refused \cup {url} ELSE refused
          /\ failed_images' = IF r \in {"4xx", "invalid"}
                              THEN failed_images \cup {url} ELSE failed_images
          /\ IF r \in {"timeout", "5xx"}
             THEN /\ Retry
                  /\ outcome' = IF retries + 1 < max_retries
                                THEN "none" ELSE "false"
                  /\ UNCHANGED present
             ELSE IF r = "ok"
             THEN /\ outcome' = "true"
                  /\ present' = present \cup {url}
                  /\ UNCHANGED <<retries, waits>>
             ELSE IF r = "oserror"
             THEN \* the write fails; what was written stays
                  /\ outcome' = "raised"
                  /\ \E left \in BOOLEAN :
                        present' = IF left THEN present \cup {url} ELSE present
                  /\ UNCHANGED <<retries, waits>>
             ELSE /\ outcome' = "false"
                  /\ UNCHANGED <<retries, waits, present>>
          /\ d_failed' = IF outcome' = "false"
                         THEN SaveFailedImages(failed_images') ELSE d_failed
    /\ UNCHANGED <<op, url, slotVars, tagVars, serverVars,
                   dumpVars>>

\* the process ends and a new one is started: Wikidot.__init__, then
\* loadFailedImages in openRepo
Restart ==
    /\ op' = "none"
    /\ url' = NoUrl
    /\ retries' = 0
    /\ resps' = <<>>
    /\ waits' = <<>>
    /\ outcome' = "none"
    /\ failed_images' = LoadFailedImages(d_failed)
    /\ UNCHANGED <<d_failed, present, refused, slotVars, tagVars, serverVars,
                   dumpVars>>

CallNext ==
    \/ QueryexBegin
    \/ QueryexTry
    \/ GetPageIdBegin
    \/ GetPageIdTry
    \/ MaybeDownloadFileBegin
    \/ MaybeDownloadFileTry
    \/ Restart

CallSpec == CallInit /\ [][CallNext]_vars


(***************************************************************************)
(* commitNext, the source of the tags of a change, as a function of the    *)
(* compiled list and the change: for every short list of changes over two  *)
(* pages, with every marking of tag changes (flag 'A').                    *)
(***************************************************************************)
\* length of the lists followed
MaxList == 3

TagPageIds == {1, 2}
Flags == {"A", "S"}

\* pagerev: the changes of the page of rev, in list order
PageRev(list, rev) == SelectSeq(list, LAMBDA v : v.page_id = rev.page_id)

\* tagrev: the tag changes among them
TagRev(list, rev) == SelectSeq(PageRev(list, rev), LAMBDA v : v.flag = "A")

\* faulty variant: no other change is ever found
NewRevIdNone(list, rev) == 0

\* new_rev_id: the first id other than rev's among the ids of tagrev
\* followed by the ids of pagerev; 0 stands for the empty string
NewRevId(list, rev) ==
    LET both == TagRev(list, rev) \o PageRev(list, rev)
        others == SelectSeq(both, LAMBDA v : v.rev_id # rev.rev_id)
    IN  IF others = <<>> THEN 0 ELSE Head(others).rev_id

\* get_page_tags (scrape) or get_tags_from_diff(rev_id, new_rev_id)
TagSource(list, rev) ==
    IF TagRev(list, rev) # <<>>
    THEN IF NewRevId(list, rev) = 0
         THEN [src |-> "scrape", other |-> 0]
         ELSE [src |-> "diff", other |-> NewRevId(list, rev)]
    ELSE [src |-> "scrape", other |-> 0]

TagInit ==
    /\ InitDump
    /\ twice = {}
    /\ gone = {}
    /\ args.revs_to_skip = {} /\ args.pages_to_skip = {}
    /\ ~args.use_ftml /\ ~args.revids /\ ~args.cleanup
    /\ InitWikidot(delay, 0)

\* the changes of the site are compiled: ids are unique, pages and flags
\* are any
TagCompile ==
    /\ t_wrevs = <<>>
    /\ \E n \in 1..MaxList :
       \E pg \in [1..n -> TagPageIds], fl \in [1..n -> Flags] :
          t_wrevs' = [i \in 1..n |->
                         [rev_id |-> i, page_id |-> pg[i], flag |-> fl[i]]]
    /\ UNCHANGED <<t_rev_no, t_tags, slotVars, callVars, serverVars, dumpVars>>

\* commitNext for the entry at the cursor, as far as the tags go
CommitNextTags ==
    /\ t_rev_no < Len(t_wrevs)
    /\ t_tags' = TagSource(t_wrevs, t_wrevs[t_rev_no + 1])
    /\ t_rev_no' = t_rev_no + 1
    /\ UNCHANGED <<t_wrevs, slotVars, callVars, serverVars, dumpVars>>

TagNext ==
    \/ TagCompile
    \/ CommitNextTags

TagSpec == TagInit /\ [][TagNext]_vars


(***************************************************************************)
(* Runs on one target directory in which the operator may ask for the      *)
(* other format from one run to the next (rm.use_ftml = args.use_ftml).    *)
(***************************************************************************)
FlagInit ==
    /\ InitDump
    /\ twice = {}
    /\ gone = {}
    /\ args.revs_to_skip = {} /\ args.pages_to_skip = {}
    /\ ~args.revids
    /\ InitWikidot(delay, 0)

\* the next run is started with the other value of --use-ftml
SetFormat ==
    /\ UNCHANGED clientVars
    /\ ~Running
    /\ args' = [args EXCEPT !.use_ftml = ~args.use_ftml]
    /\ UNCHANGED <<listed, twice, gone, diskVars, pc, memVars, histVars>>

FlagNext == Next \/ SetFormat

FlagSpec == FlagInit /\ [][FlagNext]_vars


(***************************************************************************)
(* Runs with --cleanup: every run that completes ends with cleanup.        *)
(***************************************************************************)
CleanInit ==
    /\ InitDump
    /\ twice = {}
    /\ gone = {}
    /\ args.revs_to_skip = {} /\ args.pages_to_skip = {}
    /\ ~args.revids
    /\ args.cleanup
    /\ InitWikidot(delay, 0)

CleanSpec == CleanInit /\ [][Next]_vars


(***************************************************************************)
(* server.py: the job server.  Every request is handled by a thread of its *)
(* own (main, 113-117); a start_job handler starts one more thread for the *)
(* job.  A step is one statement, or one block under JOB_LOCK whose        *)
(* intermediate states no other thread reads.                              *)
(***************************************************************************)
ServerInit ==
    /\ InitDump
    /\ twice = {}
    /\ gone = {}
    /\ args.revs_to_skip = {} /\ args.pages_to_skip = {}
    /\ ~args.use_ftml /\ ~args.revids /\ ~args.cleanup
    /\ InitWikidot(delay, 0)

\* faulty variant: the counter is not advanced
BumpNone(c) == c

\* JOB_ID_COUNTER += 1
Bump(c) == c + 1

\* handle_client 19-38: a start_job request comes in; the handler takes the
\* next job id under the lock and parses the job's arguments
StartJob(h) ==
    /\ starters[h].pc = "none"
    /\ h > 1 => starters[h - 1].pc # "none"
    /\ JOB_LOCK = 0
    /\ JOB_ID_COUNTER' = Bump(JOB_ID_COUNTER)
    /\ \E dir \in Dirs, ok \in BOOLEAN :
          starters' = [starters EXCEPT
                         ![h].job_id = Str(JOB_ID_COUNTER),
                         ![h].dump = IF ok THEN dir ELSE "",
                         ![h].pc = IF ok THEN "register" ELSE "refused"]
    /\ UNCHANGED <<JOB_STATUS, JOB_OUTPUT, JOB_LOCK, sys_stdout, sys_stderr,
                   ask, responded>>
    /\ UNCHANGED <<slotVars, callVars, tagVars, dumpVars>>
\* handle_client 40-41: take the lock, enter the status
RegisterStatus(h) ==
    /\ starters[h].pc = "register"
    /\ JOB_LOCK = 0
    /\ JOB_LOCK' = h
    /\ JOB_STATUS' = [JOB_STATUS EXCEPT ![starters[h].job_id] = "running"]
    /\ starters' = [starters EXCEPT ![h].pc = "register2"]
    /\ UNCHANGED <<JOB_OUTPUT, JOB_ID_COUNTER, sys_stdout, sys_stderr, ask,
                   responded>>
    /\ UNCHANGED <<slotVars, callVars, tagVars, dumpVars>>
\* handle_client 42: enter the empty output, release the lock
RegisterOutput(h) ==
    /\ starters[h].pc = "register2"
    /\ JOB_LOCK = h
    /\ JOB_LOCK' = 0
    /\ JOB_OUTPUT' = [JOB_OUTPUT EXCEPT
                        ![starters[h].job_id] = [exists |-> TRUE, val |-> <<>>]]
    /\ starters' = [starters EXCEPT ![h].pc = "respond"]
    /\ UNCHANGED <<JOB_STATUS, JOB_ID_COUNTER, sys_stdout, sys_stderr, ask,
                   responded>>
    /\ UNCHANGED <<slotVars, callVars, tagVars, dumpVars>>
\* handle_client 44-49: the job_started response; the job thread starts
Respond(h) ==
    /\ starters[h].pc = "respond"
    /\ responded' = responded \cup {starters[h].job_id}
    /\ starters' = [starters EXCEPT ![h].pc = "save_stdout"]
    /\ UNCHANGED <<JOB_STATUS, JOB_OUTPUT, JOB_LOCK, JOB_ID_COUNTER,
                   sys_stdout, sys_stderr, ask>>
    /\ UNCHANGED <<slotVars, callVars, tagVars, dumpVars>>
\* run_job_in_thread 76: old_stdout = sys.stdout
SaveStdout(h) ==
    /\ starters[h].pc = "save_stdout"
    /\ starters' = [starters EXCEPT ![h].old_stdout = sys_stdout,
                                    ![h].pc = "save_stderr"]
    /\ UNCHANGED <<JOB_STATUS, JOB_OUTPUT, JOB_LOCK, JOB_ID_COUNTER,
                   sys_stdout, sys_stderr, ask, responded>>
    /\ UNCHANGED <<slotVars, callVars, tagVars, dumpVars>>
\* run_job_in_thread 77: old_stderr = sys.stderr
SaveStderr(h) ==
    /\ starters[h].pc = "save_stderr"
    /\ starters' = [starters EXCEPT ![h].old_stderr = sys_stderr,
                                    ![h].pc = "set_stdout"]
    /\ UNCHANGED <<JOB_STATUS, JOB_OUTPUT, JOB_LOCK, JOB_ID_COUNTER,
                   sys_stdout, sys_stderr, ask, responded>>
    /\ UNCHANGED <<slotVars, callVars, tagVars, dumpVars>>
\* run_job_in_thread 78-79: sys.stdout = redirected_output
SetStdout(h) ==
    /\ starters[h].pc = "set_stdout"
    /\ sys_stdout' = h
    /\ starters' = [starters EXCEPT ![h].pc = "set_stderr"]
    /\ UNCHANGED <<JOB_STATUS, JOB_OUTPUT, JOB_LOCK, JOB_ID_COUNTER,
                   sys_stderr, ask, responded>>
    /\ UNCHANGED <<slotVars, callVars, tagVars, dumpVars>>
\* run_job_in_thread 80: sys.stderr = redirected_output
SetStderr(h) ==
    /\ starters[h].pc = "set_stderr"
    /\ sys_stderr' = h
    /\ starters' = [starters EXCEPT ![h].pc = "crawl"]
    /\ UNCHANGED <<JOB_STATUS, JOB_OUTPUT, JOB_LOCK, JOB_ID_COUNTER,
                   sys_stdout, ask, responded>>
    /\ UNCHANGED <<slotVars, callVars, tagVars, dumpVars>>
\* the StringIO of thread h is still read: the thread has not yet copied
\* it to its output
Live(h) ==
    starters[h].pc \in {"set_stderr", "crawl", "crawled", "status", "finally"}

\* the StringIO objects after thread h has written a line to stream: the
\* line goes to the object the stream names at that moment (0: the
\* terminal); a line is the thread that wrote it
Written(h, stream) ==
    IF stream # 0 /\ Live(stream)
    THEN [starters EXCEPT ![stream].buf = Append(@, h)]
    ELSE starters

\* run_crawl_job 130 called at run_job_in_thread 84: the job prints
\* "Downloading pages to ..." to sys.stdout; and the first call of
\* progress_callback (run_job_in_thread 72-74), which writes under the lock
\* to the job's own output only
CrawlWork(h) ==
    /\ starters[h].pc = "crawl"
    /\ JOB_LOCK = 0
    /\ JOB_OUTPUT' = [JOB_OUTPUT EXCEPT
                        ![starters[h].job_id].val = Append(@, h)]
    /\ starters' = [Written(h, sys_stdout) EXCEPT ![h].pc = "crawled"]
    /\ UNCHANGED <<JOB_STATUS, JOB_LOCK, JOB_ID_COUNTER, sys_stdout,
                   sys_stderr, ask, responded>>
    /\ UNCHANGED <<slotVars, callVars, tagVars, dumpVars>>
\* run_job_in_thread 84: run_crawl_job returns or raises
CrawlEnd(h) ==
    /\ starters[h].pc = "crawled"
    /\ \E r \in {"returned", "raised"} :
          starters' = [starters EXCEPT ![h].result = r, ![h].dump = "",
                                       ![h].pc = "status"]
    /\ UNCHANGED <<JOB_STATUS, JOB_OUTPUT, JOB_LOCK, JOB_ID_COUNTER,
                   sys_stdout, sys_stderr, ask, responded>>
    /\ UNCHANGED <<slotVars, callVars, tagVars, dumpVars>>
\* faulty variant: a job that raised is left as it was
EndStatusKeep(r, old) == IF r = "returned" THEN "completed" ELSE old

\* run_job_in_thread 87-94: the status a job that ended is given
EndStatus(r, old) == IF r = "returned" THEN "completed" ELSE "failed"

\* run_job_in_thread 87-94: record the end under the lock
SetStatus(h) ==
    /\ starters[h].pc = "status"
    /\ JOB_LOCK = 0
    /\ JOB_STATUS' = [JOB_STATUS EXCEPT
                        ![starters[h].job_id] = EndStatus(starters[h].result, @)]
    /\ starters' = [starters EXCEPT ![h].pc = "finally"]
    /\ UNCHANGED <<JOB_OUTPUT, JOB_LOCK, JOB_ID_COUNTER, sys_stdout,
                   sys_stderr, ask, responded>>
    /\ UNCHANGED <<slotVars, callVars, tagVars, dumpVars>>
\* run_job_in_thread 96-97: add the lines of the job's StringIO to its
\* output; the StringIO is not read again
Finally(h) ==
    /\ starters[h].pc = "finally"
    /\ JOB_LOCK = 0
    /\ JOB_OUTPUT' = [JOB_OUTPUT EXCEPT
                        ![starters[h].job_id].val = @ \o starters[h].buf]
    /\ starters' = [starters EXCEPT ![h].buf = <<>>,
                                    ![h].pc = "restore_stdout"]
    /\ UNCHANGED <<JOB_STATUS, JOB_LOCK, JOB_ID_COUNTER, sys_stdout,
                   sys_stderr, ask, responded>>
    /\ UNCHANGED <<slotVars, callVars, tagVars, dumpVars>>
\* run_job_in_thread 98: sys.stdout = old_stdout
RestoreStdout(h) ==
    /\ starters[h].pc = "restore_stdout"
    /\ sys_stdout' = starters[h].old_stdout
    /\ starters' = [starters EXCEPT ![h].old_stdout = 0,
                                    ![h].pc = "restore_stderr"]
    /\ UNCHANGED <<JOB_STATUS, JOB_OUTPUT, JOB_LOCK, JOB_ID_COUNTER,
                   sys_stderr, ask, responded>>
    /\ UNCHANGED <<slotVars, callVars, tagVars, dumpVars>>
\* run_job_in_thread 99: sys.stderr = old_stderr; the thread ends
RestoreStderr(h) ==
    /\ starters[h].pc = "restore_stderr"
    /\ sys_stderr' = starters[h].old_stderr
    /\ starters' = [starters EXCEPT ![h].old_stderr = 0,
                                    ![h].pc = "done"]
    /\ UNCHANGED <<JOB_STATUS, JOB_OUTPUT, JOB_LOCK, JOB_ID_COUNTER,
                   sys_stdout, ask, responded>>
    /\ UNCHANGED <<slotVars, callVars, tagVars, dumpVars>>
\* handle_client 51-52, 54-57: a get_status request comes in, for any id;
\* no lock is taken.  known: the id had been sent in a job_started response
\* when the request came in
GetStatusCheck ==
    /\ ask.pc \in {"none", "done"}
    /\ \E id \in JobIds :
          ask' = IF JOB_STATUS[id] # "absent"
                 THEN [pc |-> "read", job_id |-> id,
                       known |-> id \in responded, resp |-> "none"]
                 ELSE [pc |-> "done", job_id |-> id,
                       known |-> id \in responded,
                       resp |-> "Job ID not found"]
    /\ UNCHANGED <<JOB_STATUS, JOB_OUTPUT, JOB_LOCK, JOB_ID_COUNTER,
                   sys_stdout, sys_stderr, starters, responded>>
    /\ UNCHANGED <<slotVars, callVars, tagVars, dumpVars>>
\* handle_client 53, 56-57, 65-67: the response is built from both maps; a
\* missing output is a KeyError, answered as an error
GetStatusRead ==
    /\ ask.pc = "read"
    /\ ask' = [ask EXCEPT
                 !.pc = "done",
                 !.resp = IF JOB_OUTPUT[ask.job_id].exists
                          THEN JOB_STATUS[ask.job_id] ELSE "KeyError"]
    /\ UNCHANGED <<JOB_STATUS, JOB_OUTPUT, JOB_LOCK, JOB_ID_COUNTER,
                   sys_stdout, sys_stderr, starters, responded>>
    /\ UNCHANGED <<slotVars, callVars, tagVars, dumpVars>>
HandlerStep(h) ==
    \/ StartJob(h)
    \/ RegisterStatus(h)
    \/ RegisterOutput(h)
    \/ Respond(h)

JobStep(h) ==
    \/ SaveStdout(h)
    \/ SaveStderr(h)
    \/ SetStdout(h)
    \/ SetStderr(h)
    \/ CrawlWork(h)
    \/ CrawlEnd(h)
    \/ SetStatus(h)
    \/ Finally(h)
    \/ RestoreStdout(h)
    \/ RestoreStderr(h)

\* the threads that write the registries
JobsNext == \E h \in 1..MaxJobs : HandlerStep(h) \/ JobStep(h)

ServerNext ==
    \/ JobsNext
    \/ GetStatusCheck
    \/ GetStatusRead

ServerSpec == ServerInit /\ [][ServerNext]_vars

\* the writers alone, each of which takes a step in the end when it can:
\* the threads are scheduled by the operating system, the lock is held for
\* one block, and a crawl ends
ServerFairSpec ==
    /\ ServerInit
    /\ [][JobsNext]_vars
    /\ \A h \in 1..MaxJobs :
          /\ WF_vars(RegisterStatus(h) \/ RegisterOutput(h) \/ Respond(h))
          /\ WF_vars(JobStep(h))


(***************************************************************************)
(* Properties.                                                             *)
(***************************************************************************)
NoSkipLists == args.revs_to_skip = {} /\ args.pages_to_skip = {}
CompiledIds == {wrevs[i].rev_id : i \in DOMAIN wrevs}
LastCommit == commits[Len(commits)]
NoRepeat(s) == \A i, j \in DOMAIN s : i # j => s[i] # s[j]
AllRunsCompleted == \A i \in DOMAIN hist : hist[i].ev = "done"

\* C1: over any number of runs, each killed at any point and resumed, no
\* change id is written to .fetched.txt more than once, no change has two
\* commits, and a change that commitNext is committing was not in the log
\* when the run started.
C1_NoDuplicateCommit ==
    /\ NoRepeat(d_fetched)
    /\ NoRepeat([i \in DOMAIN ChangeCommits(commits) |->
                    ChangeCommits(commits)[i].rev])
    /\ pc \in {"append", "commit", "save"} => cn.rev \notin Range(start.log)

\* C1 witness: a run that was started after a kill between the append to
\* the log and saveState has met the logged change again and has finished.
C1_Witness ==
    /\ pc = "done"
    /\ \E i \in DOMAIN hist :
          hist[i].ev = "kill" /\ hist[i].at \in {"commit", "save"}
    /\ Len(d_fetched) >= 2

\* C2: when the only interruption was a kill right after the commit of a
\* change and before saveState, the run that resumes ends with every change
\* of the compiled list committed, as an uninterrupted run does.
C2_ResumeAfterCommitKill ==
    (/\ pc = "done"
     /\ NoSkipLists
     /\ hist = <<Event("kill", "save"), Event("done", "done")>>)
    => CompiledIds \subseteq CommittedIds(commits)

\* C3: when a resumed run (cached list, cursor and log present at its
\* start) ends without a fatal error and with empty skip lists, every
\* change of the compiled list that was not in the log at the start of the
\* run has been committed.
C3_NoMissingWork ==
    (pc = "done" /\ start.resumed /\ NoSkipLists)
    => \A id \in CompiledIds :
          id \notin Range(start.log) => id \in CommittedIds(commits)

\* C4: for every two change commits of the repository, the earlier commit
\* carries the earlier (or the same) date.
C4_CommitOrder ==
    LET cs == ChangeCommits(commits)
    IN  \A i, j \in DOMAIN cs :
           i < j => RevDate[cs[i].rev] <= RevDate[cs[j].rev]

C7_ParentPropagation ==
    (pc = "save" /\ cn.rename)
    => \A child \in Names :
          (last_parents[child] = cn.from /\ last_names[child] # NoName)
          => LET f == FName(last_names[child], args.use_ftml)
             IN  /\ files[f].parent = cn.to
                 /\ f \in LastCommit.paths
                 /\ LastCommit.tree[f].parent = cn.to

\* the names a rename commit moved a page away from and no later commit
\* gave to a page again
RenamedAway ==
    {commits[i].from : i \in
        {k \in DOMAIN commits :
            /\ commits[k].kind = "change"
            /\ commits[k].verb = "Renamed"
            /\ \A j \in DOMAIN commits :
                  j > k => commits[j].name # commits[k].from}}

\* C8: after every commit, no page file's parent field and no entry of the
\* parent map names a page name that an earlier commit renamed away.
C8_NoStaleParent ==
    pc = "save"
    => \A x \in RenamedAway :
          /\ \A f \in FileKeys : IsFile(files, f) => files[f].parent # x
          /\ \A n \in Names : last_parents[n] # x

\* C9: after every commit, also in a run started after a restart, each
\* page has at most one content file in the target directory.
C9_OneFilePerPage ==
    pc = "save"
    => \A pid \in 1..3 :
          Cardinality({f \in FileKeys :
              IsFile(files, f) /\ RevPage[files[f].src] = pid}) <= 1

\* C10: whenever no process is inside commitNext (so also after a kill at
\* any point of commitNext), every id in .fetched.txt has a commit.
C10_LoggedImpliesCommitted ==
    ~Running => Range(d_fetched) \subseteq CommittedIds(commits)

\* C11: when a process was killed inside commitNext for a change before the
\* id was appended to .fetched.txt, the commit a later run makes for that
\* change has the action verb, the file name and the file content of the
\* commit the killed process was making.
C11_SameCommitAfterKill ==
    (pc = "save" /\ cn.rev = interrupted.rev)
    => /\ cn.verb = interrupted.verb
       /\ cn.fname = interrupted.fname
       /\ files[cn.fname] = interrupted.file
       /\ LastCommit.tree[cn.fname] = interrupted.file

\* C12: when a run on a target that holds a metadata snapshot has opened
\* the repository and is about to commit, the rename map and the parent map
\* equal the maps of that snapshot.
C12_MapsFromSnapshot ==
    (pc \in {"opened", "converted"} /\ d_meta.exists)
    => /\ last_names = d_meta.names
       /\ last_parents = d_meta.parents

AllNewFormat(tree) == \A f \in FileKeys : IsFile(tree, f) => f[2] = "ftml"

\* C13: when convertFormat has run on a target whose page files (at least
\* one) were all in the new format already, so that it moved no file, it
\* has made no commit.
C13_ConvertNoop ==
    (/\ pc = "converted"
     /\ \E f \in FileKeys : IsFile(files, f)
     /\ AllNewFormat(files)
     /\ Len(commits) > start.ncommit)
    => LastCommit.paths # {}

SortedByDate(s) ==
    \A i, j \in DOMAIN s : i < j => RevDate[s[i].rev_id] <= RevDate[s[j].rev_id]

\* C15: once buildRevisionList has returned, so at every later point of
\* the run and before its first commitNext, the compiled list in memory is
\* sorted ascending by date, whether built from scratch, loaded from
\* .wrevs or loaded and extended.
C15_SortedOnReturn ==
    pc \notin {"build", "pages"} => SortedByDate(wrevs)

\* C15 witness: buildRevisionList has returned in a run that loaded the
\* cached list of an earlier, completed run (kept on disk in append order)
\* and extended it with the revisions of a page listed since.
C15_Witness ==
    /\ pc = "open"
    /\ start.resumed
    /\ Len(wrevs) = 7
    /\ \E i, j \in DOMAIN hist :
          i < j /\ hist[i].ev = "done" /\ hist[j].ev = "grow"
    /\ d_wrevs.val # wrevs
    /\ ~SortedByDate(d_wrevs.val)

\* C16: the first run on an empty target, not killed and with empty skip
\* lists, does not end in a fatal error, whatever the format and revision-id
\* options are (so that it can reach the terminal state).
C16_FirstRunTerminates ==
    (runs = 1 /\ kills = 0 /\ NoSkipLists) => pc # "crashed"

ClientError == hist # <<>> /\ hist[Len(hist)].ev = "error"

\* C17: when a call of the Protocol Client made by commitNext has raised a
\* fatal error and ended the run, .fetched.txt, the persisted cursor, the
\* metadata snapshot and the page files are what they were when that
\* commitNext began, that is, after the last successful commit.
C17_ErrorLeavesState ==
    (pc = "crashed" /\ ClientError)
    => /\ d_fetched = entry.log
       /\ d_wstate = entry.wstate
       /\ d_meta = entry.meta
       /\ files = entry.files

Skipped(e) ==
    e.rev_id \in args.revs_to_skip \/ e.page_name \in args.pages_to_skip

\* C18: when runs with a skip list, none of them killed, have ended, every
\* change of the compiled list that is in no skip list (so also the changes
\* that come after a skipped one) has been committed.
C18_SkipAdvances ==
    (pc = "done" /\ AllRunsCompleted /\ ~NoSkipLists)
    => \A i \in DOMAIN wrevs :
          ~Skipped(wrevs[i]) => wrevs[i].rev_id \in CommittedIds(commits)

\* C19: a call of commitNext that finds the change at the cursor in the
\* committed set only increments the cursor and persists it: it asks the
\* site for nothing, writes no page file and no .revid, leaves the rename
\* map, the parent map, .fetched.txt and .metadata.json as they are and
\* makes no commit.
C19_SkipCommittedOnly ==
    [][(/\ pc = "loop"
        /\ n_left > 0
        /\ rev_no < Len(wrevs)
        /\ wrevs[rev_no + 1].rev_id \in fetched_revids
        /\ pc' # "idle")
       => /\ rev_no' = rev_no + 1
          /\ d_wstate' = rev_no + 1
          /\ pc' = "loop"
          /\ UNCHANGED <<requested, files, index, commits, d_revid,
                         d_fetched, d_meta, last_names, last_parents,
                         parent_keys, fetched_revids, wrevs>>]_vars

\* C19 witness: a run resumed after a kill between the commit of change 2
\* and saveState has met change 2 at the cursor and has stepped over it.
C19_Witness ==
    /\ pc = "loop"
    /\ hist = <<Event("kill", "save")>>
    /\ Len(d_fetched) = 2
    /\ Len(ChangeCommits(commits)) = 2
    /\ rev_no = 2
    /\ d_wstate = 2
    /\ n_left = 2
    /\ requested = {}

\* C20: once buildRevisionList has returned, the compiled list holds each
\* change id at most once, also when the page list names a page twice.
C20_NoDuplicateIds ==
    pc \notin {"build", "pages"}
    => NoRepeat([i \in DOMAIN wrevs |-> wrevs[i].rev_id])

\* C21: no step of buildRevisionList appends to the compiled list a change
\* whose id was in .fetched.txt when the run (and so the compile) started.
C21_NoLoggedAppended ==
    [][pc = "pages"
       => \A i \in (Len(wrevs) + 1)..Len(wrevs') :
             wrevs'[i].rev_id \notin Range(start.log)]_vars

\* C21 witness: a compile from scratch (the cache was removed by cleanup)
\* with changes 1..5 in the log has gone through the pages s and p, whose
\* changes are all logged, and has appended only the changes of the new page.
C21_Witness ==
    /\ pc = "open"
    /\ args.cleanup
    /\ Len(start.log) = 5
    /\ CompiledIds = {6, 7}
    /\ Len(pages) = 3

\* C22: a compile whose page set holds a page that no longer resolves to
\* an id is not ended by the failed lookup.
C22_GonePageSkipped ==
    \A i \in DOMAIN hist : hist[i] # Event("crash", "compile")

IdsOf(list) == {list[i].rev_id : i \in DOMAIN list}
IsPrefix(a, b) == Len(a) <= Len(b) /\ SubSeq(b, 1, Len(a)) = a
NoFileYet == [exists |-> FALSE, val |-> <<>>]
OnlyCompileKills ==
    \A i \in DOMAIN hist :
       hist[i].ev = "kill" /\ hist[i].at \in {"build", "pages"}

Cube(k) == k * k * k
RECURSIVE SumCubes(_)
SumCubes(n) == IF n = 0 THEN 0 ELSE Cube(n) + SumCubes(n - 1)
RECURSIVE SumSeq(_)
SumSeq(q) == IF q = <<>> THEN 0 ELSE Head(q) + SumSeq(Tail(q))
Transient == {"timeout", "5xx", "badjson", "notok"}
Exhausted ==
    /\ op # "none"
    /\ Len(resps) = max_retries
    /\ \A i \in DOMAIN resps : resps[i] \in Transient

\* C24: a call of the client sends at most max_retries requests, and a call
\* whose requests all failed in a transient way has raised.
C24_ExhaustedRaises ==
    /\ Len(resps) <= max_retries
    /\ Exhausted => outcome = "raised"

\* C25: within a call the k-th back-off sleep is k^3 seconds, the sleeps
\* grow strictly, and they add up to at most the sum of k^3, k = 1..max_retries.
C25_CubicBackoff ==
    /\ Len(waits) <= max_retries
    /\ \A k \in DOMAIN waits :
          /\ waits[k] = Cube(k)
          /\ k > 1 => waits[k] > waits[k - 1]
    /\ SumSeq(waits) <= SumCubes(max_retries)

\* a call that slept after each of max_retries failed requests
C25_Witness ==
    /\ op = "queryex"
    /\ outcome = "raised"
    /\ waits = <<1, 8, 27, 64, 125>>

Asked == Len(resps') > Len(resps)

C27_FailedDownloadRecorded ==
    (op = "download" /\ resps # <<>> /\ outcome \notin {"none", "true"})
    => (outcome = "false" /\ url \in failed_images)

\* the entry commitNext has just chosen the tag source for, the ids of the
\* changes of its page in the list, and the tag changes among them
TagsChosen == t_rev_no > 0
TRev == t_wrevs[t_rev_no]
TPageIds == {t_wrevs[i].rev_id :
                i \in {j \in DOMAIN t_wrevs : t_wrevs[j].page_id = TRev.page_id}}
TFlaggedIds == {t_wrevs[i].rev_id :
                   i \in {j \in DOMAIN t_wrevs :
                             /\ t_wrevs[j].page_id = TRev.page_id
                             /\ t_wrevs[j].flag = "A"}}

\* C28 (as stated): for a change of a page with tag changes in the list the
\* tags come from a diff of two changes of the page, except that they are
\* scraped exactly when the page has only one tag change in the list; for a
\* page with no tag change they are scraped.
C28_ScrapeIffOneTagChange ==
    TagsChosen =>
       /\ TFlaggedIds = {} => t_tags.src = "scrape"
       /\ Cardinality(TFlaggedIds) = 1 => t_tags.src = "scrape"
       /\ Cardinality(TFlaggedIds) > 1
          => (t_tags.src = "diff" /\ t_tags.other \in TPageIds \ {TRev.rev_id})

\* C28 (amended): the tags are scraped exactly when the page has no tag
\* change in the list or the change is the only change of its page in the
\* list; otherwise they come from a diff of the change with another change
\* of the page, a tag change if there is one other than the change itself.
C28_ScrapeIffNoOtherChange ==
    TagsChosen =>
       /\ t_tags.src = "scrape"
          <=> (TFlaggedIds = {} \/ TPageIds = {TRev.rev_id})
       /\ t_tags.src # "scrape"
          => /\ t_tags.src = "diff"
             /\ t_tags.other \in TPageIds \ {TRev.rev_id}
             /\ TFlaggedIds \ {TRev.rev_id} # {} => t_tags.other \in TFlaggedIds

\* the only tag change of a page that has another change: its tags come
\* from the diff with that change
C28_Witness ==
    /\ TagsChosen
    /\ TFlaggedIds = {TRev.rev_id}
    /\ t_tags.src = "diff"
    /\ t_tags.other \notin TFlaggedIds

\* C29: the message of every commit of a change starts with one of the
\* verbs Created, Updated, Renamed.
C29_MessageHasVerb ==
    \A i \in DOMAIN commits :
       commits[i].kind = "change"
       => commits[i].verb \in {"Created", "Updated", "Renamed"}

\* C30: the page file commitNext has just written carries the header block
\* exactly in the new format, and in the legacy format it has no parent
\* line (it is the body only).
C30_LegacyBodyOnly ==
    pc = "append"
    => /\ files[cn.fname].ftml = args.use_ftml
       /\ ~args.use_ftml => files[cn.fname].parent = NoName

Suffixes == {f[2] : f \in {g \in FileKeys : IsFile(files, g)}}

\* C31: after a run has ended, all page files of the target carry the same
\* format suffix.
C31_OneSuffix ==
    pc = "done" => Cardinality(Suffixes) <= 1

\* C32: convertFormat has run only on a repository with a recorded format
\* flag that differs from the requested one, and it has made one commit.
C32_ConvertOnlyOnChange ==
    pc = "converted"
    => /\ prev_use_ftml \in {"true", "false"}
       /\ prev_use_ftml # BoolStr(args.use_ftml)
       /\ Len(commits) = start.ncommit + 1
       /\ LastCommit.kind = "convert"

\* C33: commitNext goes on to commit a rename of Q to R only if every page
\* recorded with the parent Q has its file on disk with the parent line,
\* now naming R; otherwise the run has ended with an error.
C33_ChildMismatchFatal ==
    (pc = "append" /\ cn.rename)
    => \A child \in Names :
          last_parents[child] = cn.from
          => LET f == FName(child, args.use_ftml)
             IN  IsFile(files, f) /\ files[f].parent = cn.to

CleanedBefore == \E i \in DOMAIN commits : commits[i].kind = "cleanup"

\* C34: cleanup removes .wstate, .wrevs and .pages and leaves .fetched.txt,
\* .metadata.json, .failed-images.txt and every page file as they were; and
\* a change committed after a cleanup is not one that was archived before.
C34_CleanupFrame ==
    [][/\ (pc = "cleanup" /\ pc' = "done")
          => /\ d_wstate' = -1
             /\ ~d_wrevs'.exists
             /\ ~d_pages'.exists
             /\ d_fetched' = d_fetched
             /\ d_meta' = d_meta
             /\ d_failed' = d_failed
             /\ files' = files
       /\ (CleanedBefore /\ Len(commits') > Len(commits)
           /\ commits'[Len(commits')].kind = "change")
          => commits'[Len(commits')].rev \notin CommittedIds(commits)]_vars

\* after a cleanup a later run has committed a change
C34_Witness ==
    /\ pc = "save"
    /\ CleanedBefore
    /\ LastCommit.kind = "change"
    /\ d_fetched # <<>>

\* C35: openRepo never ends a run with an error, whether the target has a
\* repository or not and whatever storeRevIds is.
C35_OpenRepoNoError ==
    \A i \in DOMAIN hist : hist[i] # Event("crash", "open")

CommitPhase == pc \in {"loop", "append", "commit", "save"}

\* C36: in the commit phase the cursor lies within the compiled list, and
\* every change below the cursor has been committed (it is in the log, in
\* memory or on disk, or has a commit) or is in a skip list.
C36_CursorInvariant ==
    CommitPhase
    => /\ rev_no \in 0..Len(wrevs)
       /\ \A i \in 1..rev_no :
             i \in DOMAIN wrevs
             => \/ wrevs[i].rev_id \in fetched_revids \cup Range(d_fetched)
                                       \cup CommittedIds(commits)
                \/ Skipped(wrevs[i])

Threads == 1..MaxJobs
AllJobsEnded ==
    /\ \E h \in Threads : starters[h].pc = "done"
    /\ \A h \in Threads : starters[h].pc \in {"none", "refused", "done"}
InCrawl(h) == starters[h].pc \in {"crawl", "crawled"}

\* C37: the output recorded for a job holds only lines that job wrote, and
\* when all jobs have ended sys.stdout and sys.stderr are the original
\* streams.
C37_JobsIsolated ==
    /\ \A h \in Threads :
          starters[h].job_id # ""
          => LET out == JOB_OUTPUT[starters[h].job_id].val
             IN  \A i \in DOMAIN out : out[i] = h
    /\ AllJobsEnded => (sys_stdout = 0 /\ sys_stderr = 0)

\* C38: no two jobs are inside run_crawl_job at the same time with the same
\* target directory.
C38_OneJobPerDirectory ==
    \A h1, h2 \in Threads :
       (h1 # h2 /\ InCrawl(h1) /\ InCrawl(h2))
       => starters[h1].dump # starters[h2].dump

\* C39: the handlers of start_job requests hold distinct job ids; an id sent
\* in a job_started response has its status entry and its output entry; and
\* a get_status request that came in after that response is answered
\* neither with 'Job ID not found' nor with any other error.
C39_DistinctRegisteredIds ==
    /\ \A h1, h2 \in Threads :
          (h1 # h2 /\ starters[h1].job_id # "")
          => starters[h1].job_id # starters[h2].job_id
    /\ \A id \in responded :
          JOB_STATUS[id] # "absent" /\ JOB_OUTPUT[id].exists
    /\ ask.known => ask.resp \notin {"Job ID not found", "KeyError"}

\* two handlers have taken their ids, and a get_status for an id that had
\* been sent to the client was answered with the job's status
C39_Witness ==
    /\ \A h \in Threads : starters[h].job_id # ""
    /\ ask.pc = "done"
    /\ ask.known
    /\ ask.resp = "running"

Registered(h) ==
    starters[h].pc \in {"respond", "save_stdout", "save_stderr", "set_stdout",
                        "set_stderr", "crawl", "crawled"}
Recorded(h) ==
    starters[h].pc \in {"finally", "restore_stdout", "restore_stderr", "done"}
StatusOf(h) ==
    IF starters[h].job_id \in JobIds
    THEN JOB_STATUS[starters[h].job_id] ELSE "absent"

\* C40 as stated: a registered job is 'running' until its crawl function
\* has ended, and the status of a job whose crawl function has ended, which
\* is what a get_status reports, is not 'running'.
C40_NeverRunningAfterEnd ==
    \A h \in Threads :
       /\ Registered(h) => StatusOf(h) = "running"
       /\ starters[h].result # "none" => StatusOf(h) # "running"

\* C40, amended: a registered job is 'running' until its thread records the
\* end, which it does after the crawl function has ended; the status
\* recorded is 'completed' if the crawl function returned and 'failed' if
\* it raised; a status changes only from absent to 'running' and from
\* 'running' to 'completed' or 'failed'; and a job whose crawl function has
\* ended gets its final status in the end.
C40_StatusLifecycle ==
    /\ [](\A h \in Threads :
            /\ (Registered(h) \/ starters[h].pc = "status")
               => StatusOf(h) = "running"
            /\ Recorded(h)
               => StatusOf(h) = IF starters[h].result = "returned"
                                THEN "completed" ELSE "failed")
    /\ [][\A id \in JobIds :
            JOB_STATUS'[id] # JOB_STATUS[id]
            => \/ JOB_STATUS[id] = "absent" /\ JOB_STATUS'[id] = "running"
               \/ /\ JOB_STATUS[id] = "running"
                  /\ JOB_STATUS'[id] \in {"completed", "failed"}]_vars
    /\ \A h \in Threads :
          (starters[h].pc = "status")
          ~> (StatusOf(h) \in {"completed", "failed"})

\* two jobs have ended, one whose crawl function raised and one whose crawl
\* function returned, and their statuses say so
C40_Witness ==
    \E h1, h2 \in Threads :
       /\ starters[h1].pc = "done"
       /\ starters[h1].result = "raised"
       /\ StatusOf(h1) = "failed"
       /\ starters[h2].pc = "done"
       /\ starters[h2].result = "returned"
       /\ StatusOf(h2) = "completed"

====
